---- MODULE Spec2Model ----
(***************************************************************************)
(* Model of reg_exp_converter.py: the converter of a finite state          *)
(* automaton, read from a six-line text file, into a regular expression.   *)
(*                                                                         *)
(* Text is modelled as a sequence of atoms.  An atom is a delimiter        *)
(* ("[", "]", ",", ">", "=", "(", ")", "*", "|"), a keyword, a one-letter  *)
(* name, or one of the two markers "eps" and "{}".  A file is a sequence   *)
(* of lines, a line a sequence of atoms.                                   *)
(***************************************************************************)
EXTENDS Integers, Sequences, FiniteSets, TLC

\* ------------------------------------------------------------- bounds
\* the number of state names of the larger automata (WideFiles)
MaxStates == 3
\* the number of transition tokens of a file of PipelineFiles; the files
\* of automata alone (AutomatonFiles) have up to one more
MaxTrans == 2
\* the length up to which the words of two languages are compared
MaxWordLen == 4

\* ------------------------------------------------------- text helpers

\* str.split(sep): the fields between the occurrences of sep
RECURSIVE Split(_, _)
Split(text, sep) ==
    IF \A i \in 1..Len(text) : text[i] # sep
    THEN <<text>>
    ELSE LET i == CHOOSE k \in 1..Len(text) :
                      text[k] = sep /\ \A m \in 1..(k - 1) : text[m] # sep
         IN <<SubSeq(text, 1, i - 1)>> \o Split(SubSeq(text, i + 1, Len(text)), sep)

\* sep.join(fields), used to write the input files
RECURSIVE Join(_, _)
Join(fields, sep) ==
    IF Len(fields) = 0 THEN <<>>
    ELSE IF Len(fields) = 1 THEN fields[1]
    ELSE fields[1] \o <<sep>> \o Join(Tail(fields), sep)

Range(seq) == {seq[i] : i \in 1..Len(seq)}

\* code points of the letters used as names, in ASCII order
Ord(atom) ==
    CASE atom = "a" -> 97
      [] atom = "b" -> 98
      [] atom = "p" -> 112
      [] atom = "q" -> 113
      [] atom = "r" -> 114
      [] atom = "s" -> 115
      [] atom = "z" -> 122
      [] OTHER -> 0

\* str.__lt__: lexicographic order of two texts
RECURSIVE StrLess(_, _)
StrLess(x, y) ==
    IF Len(y) = 0 THEN FALSE
    ELSE IF Len(x) = 0 THEN TRUE
    ELSE IF Ord(Head(x)) # Ord(Head(y)) THEN Ord(Head(x)) < Ord(Head(y))
    ELSE StrLess(Tail(x), Tail(y))

\* list(set(xs)) followed by list.sort()
RECURSIVE SortSet(_)
SortSet(S) ==
    IF S = {} THEN <<>>
    ELSE LET least == CHOOSE x \in S : \A y \in S \ {x} : StrLess(x, y)
         IN <<least>> \o SortSet(S \ {least})

\* ------------------------------------------------------- exceptions

NoArg == <<>>
InputIsMalformedException == [code |-> "E1", arg |-> NoArg]
InitStateIsNotDefinedException == [code |-> "E2", arg |-> NoArg]
NoAcceptingStatesException == [code |-> "E3", arg |-> NoArg]
InvalidStateException(state) == [code |-> "E4", arg |-> state]
InvalidTransitionException(transition) == [code |-> "E5", arg |-> transition]
DisjointStatesException == [code |-> "E6", arg |-> NoArg]
InvalidFSATypeException == [code |-> "E7", arg |-> NoArg]
\* an exception that is no ConverterException (unpacking a split of the
\* wrong length)
ValueError == [code |-> "ValueError", arg |-> NoArg]
NoException == [code |-> "none", arg |-> NoArg]

\* ------------------------------------------------------- __extract

commands == <<"type", "states", "alphabet", "initial", "accepting", "transitions">>

\* re.findall(r'\[([^\]]+)\]', line): the groups of the matches, left to
\* right.  A match starts at a "[" that is followed by at least one atom
\* other than "]" and then by "]"; the scan resumes after the match.
RECURSIVE findallFrom(_, _)
findallFrom(line, from) ==
    LET Closes(i) == {j \in (i + 1)..Len(line) : line[j] = "]"}
        FirstClose(i) == CHOOSE j \in Closes(i) : \A m \in Closes(i) : j <= m
        Starts == {i \in from..Len(line) :
                      /\ line[i] = "["
                      /\ Closes(i) # {}
                      /\ FirstClose(i) > i + 1}
    IN IF Starts = {} THEN <<>>
       ELSE LET i == CHOOSE k \in Starts : \A m \in Starts : k <= m
                j == FirstClose(i)
            IN <<SubSeq(line, i + 1, j - 1)>> \o findallFrom(line, j + 1)

findall(line) == findallFrom(line, 1)

\* The fields __extract assigns, or "malformed" when anything in its try
\* block raises: a line without its keyword, a seventh line (commands[i]
\* out of range), fewer than six lines or a line without a match
\* (parsed_vals[k][0] out of range).  The bare except turns each of them
\* into InputIsMalformedException.
extract(file) ==
    IF \/ Len(file) # Len(commands)
       \/ \E i \in 1..Len(file) : i <= Len(commands) /\ commands[i] \notin Range(file[i])
       \/ \E i \in 1..Len(file) : findall(file[i]) = <<>>
    THEN [malformed |-> TRUE]
    ELSE LET parsed_vals == [i \in 1..Len(file) |-> findall(file[i])]
         IN [malformed |-> FALSE,
             automaton_type |-> parsed_vals[1][1],
             states |-> SortSet(Range(Split(parsed_vals[2][1], ","))),
             alphabet |-> Split(parsed_vals[3][1], ","),
             initial_state |-> parsed_vals[4][1],
             accepting_states |-> Split(parsed_vals[5][1], ","),
             transitions |-> Split(parsed_vals[6][1], ",")]

\* ------------------------------------------------------- Graph, Node

\* Nodes are numbered by their position in node_list; node 0 is the
\* Node() made before the loop of __validate, which is in no list.
FreshNode == 0
EmptyGraph(number_of_states) ==
    [number_of_states |-> number_of_states, node_list |-> <<>>, adjacent_nodes |-> <<>>]

getLabel(graph, node) == IF node = FreshNode THEN <<>> ELSE graph.node_list[node]
getAdjacentNodes(graph, node) ==
    IF node = FreshNode THEN <<>> ELSE graph.adjacent_nodes[node]

\* Graph.addNode: the graph with a node of this label, and that node
addNode(graph, label) ==
    IF label \notin Range(graph.node_list)
    THEN [graph |-> [graph EXCEPT !.node_list = Append(@, label),
                                  !.adjacent_nodes = Append(@, <<>>)],
          node |-> Len(graph.node_list) + 1]
    ELSE [graph |-> graph,
          node |-> CHOOSE n \in 1..Len(graph.node_list) :
                       /\ graph.node_list[n] = label
                       /\ \A m \in 1..(n - 1) : graph.node_list[m] # label]

\* Graph.addEdge, Node.addEdge
addEdge(graph, s_node, d_node) ==
    IF getLabel(graph, d_node) \notin
           {getLabel(graph, n) : n \in Range(graph.adjacent_nodes[s_node])}
    THEN [graph EXCEPT !.adjacent_nodes[s_node] = Append(@, d_node)]
    ELSE graph

\* Graph.__depthFirstSearch: search is [new_nodes, is_visited]
RECURSIVE depthFirstSearch(_, _, _)
RECURSIVE searchAdjacent(_, _, _, _)
depthFirstSearch(graph, node, search) ==
    searchAdjacent(graph, getAdjacentNodes(graph, node), 1,
                   [new_nodes |-> Append(search.new_nodes, node),
                    is_visited |-> search.is_visited \cup {node}])

searchAdjacent(graph, adjacentNodes, k, search) ==
    IF k > Len(adjacentNodes) THEN search
    ELSE IF adjacentNodes[k] \notin search.is_visited
    THEN searchAdjacent(graph, adjacentNodes, k + 1,
                        depthFirstSearch(graph, adjacentNodes[k], search))
    ELSE searchAdjacent(graph, adjacentNodes, k + 1, search)

\* isRegular with the count compared to the nodes of the graph, not to
\* the declared states
isRegularAmongNodes(graph, init_node) ==
    LET search == depthFirstSearch(graph, init_node,
                                   [new_nodes |-> <<>>, is_visited |-> {}])
    IN Len(search.new_nodes) = Len(graph.node_list)

\* Graph.isRegular
isRegular(graph, init_node) ==
    LET search == depthFirstSearch(graph, init_node,
                                   [new_nodes |-> <<>>, is_visited |-> {}])
    IN Len(search.new_nodes) = graph.number_of_states

\* the loop of __validate that builds the graph and finds init_node
RECURSIVE buildGraph(_, _, _, _)
buildGraph(self, k, graph, init_node) ==
    IF k > Len(self.transitions) THEN [graph |-> graph, init_node |-> init_node]
    ELSE LET fields == Split(self.transitions[k], ">")
             s == addNode(graph, fields[1])
             d == addNode(s.graph, fields[3])
             g == addEdge(d.graph, s.node, d.node)
             init1 == IF fields[1] = self.initial_state THEN s.node ELSE init_node
             init2 == IF fields[3] = self.initial_state THEN d.node ELSE init1
         IN buildGraph(self, k + 1, g, init2)

\* ------------------------------------------------------- __validate

\* the first exception of the loop over accepting_states, from index k
RECURSIVE validateAccepting(_, _)
validateAccepting(self, k) ==
    IF k > Len(self.accepting_states) THEN NoException
    ELSE IF self.accepting_states[k] \notin Range(self.states)
    THEN InvalidStateException(self.accepting_states[k])
    ELSE validateAccepting(self, k + 1)

\* the first exception of the first loop over transitions, from index k
RECURSIVE validateTransitions(_, _)
validateTransitions(self, k) ==
    IF k > Len(self.transitions) THEN NoException
    ELSE LET fields == Split(self.transitions[k], ">")
         IN IF Len(fields) # 3 THEN ValueError
            ELSE IF fields[1] = <<>> THEN InputIsMalformedException
            ELSE IF fields[1] \notin Range(self.states)
            THEN InvalidStateException(fields[1])
            ELSE IF fields[3] \notin Range(self.states)
            THEN InvalidStateException(fields[3])
            ELSE IF fields[2] \notin Range(self.alphabet)
            THEN InvalidTransitionException(fields[2])
            ELSE validateTransitions(self, k + 1)

\* state_transitions[s_state]: the symbols of the transitions out of
\* s_state, in the order of the transitions
RECURSIVE stateTransitions(_, _, _)
stateTransitions(self, s_state, k) ==
    IF k > Len(self.transitions) THEN <<>>
    ELSE LET fields == Split(self.transitions[k], ">")
         IN (IF fields[1] = s_state THEN <<fields[2]>> ELSE <<>>)
                \o stateTransitions(self, s_state, k + 1)

validateDisjoint(self) ==
    LET built == buildGraph(self, 1, EmptyGraph(Len(self.states)), FreshNode)
    IN IF ~isRegular(built.graph, built.init_node) THEN DisjointStatesException
       ELSE NoException

\* validateType without the test of the declared type
validateTypeAlways(self) ==
    LET sources == {Split(self.transitions[k], ">")[1] : k \in 1..Len(self.transitions)}
    IN IF \E s \in sources :
              Cardinality(Range(stateTransitions(self, s, 1)))
                  # Len(stateTransitions(self, s, 1))
       THEN InvalidFSATypeException
       ELSE NoException

validateType(self) ==
    IF self.automaton_type = <<"deterministic">>
    THEN LET sources == {Split(self.transitions[k], ">")[1] : k \in 1..Len(self.transitions)}
         IN IF \E s \in sources :
                   Cardinality(Range(stateTransitions(self, s, 1)))
                       # Len(stateTransitions(self, s, 1))
            THEN InvalidFSATypeException
            ELSE NoException
    ELSE NoException

\* the exception __validate raises, NoException when it returns
validate(self) ==
    IF Len(self.transitions) # Cardinality(Range(self.transitions))
    THEN InputIsMalformedException
    ELSE IF self.initial_state = <<>> THEN InitStateIsNotDefinedException
    ELSE IF self.initial_state \notin Range(self.states)
    THEN InvalidStateException(self.initial_state)
    ELSE IF self.accepting_states = <<>> THEN NoAcceptingStatesException
    ELSE IF validateAccepting(self, 1) # NoException THEN validateAccepting(self, 1)
    ELSE IF validateTransitions(self, 1) # NoException THEN validateTransitions(self, 1)
    ELSE IF validateDisjoint(self) # NoException THEN validateDisjoint(self)
    ELSE validateType(self)

\* --------------------------------------------- __buildInitialRegExp

epsilon == <<"eps">>
empty_set == <<"{}">>

\* the alternatives "a|" appended for the transitions from i_state to
\* j_state, in the order of the transitions
RECURSIVE directSymbols(_, _, _, _)
directSymbols(self, i_state, j_state, k) ==
    IF k > Len(self.transitions) THEN <<>>
    ELSE LET fields == Split(self.transitions[k], ">")
         IN (IF <<fields[1], fields[3]>> = <<i_state, j_state>>
             THEN fields[2] \o <<"|">> ELSE <<>>)
                \o directSymbols(self, i_state, j_state, k + 1)

initialCell(self, i, j) ==
    LET direct == directSymbols(self, self.states[i], self.states[j], 1)
        withEps == IF self.states[i] = self.states[j] THEN direct \o epsilon ELSE direct
        orEmpty == IF withEps = <<>> THEN empty_set ELSE withEps
    IN IF orEmpty[Len(orEmpty)] = "|" THEN SubSeq(orEmpty, 1, Len(orEmpty) - 1)
       ELSE orEmpty

buildInitialRegExp(self) ==
    [i \in 1..Len(self.states) |-> [j \in 1..Len(self.states) |-> initialCell(self, i, j)]]

\* ------------------------------------------------------- convert

\* cellFormat without the star: (A)(B)(C)|(D)
cellFormatNoStar(A, B, C, D) ==
    <<"(">> \o A \o <<")">> \o <<"(">> \o B \o <<")">>
        \o <<"(">> \o C \o <<")">> \o <<"|">> \o <<"(">> \o D \o <<")">>

\* the f-string of one cell: (A)(B)*(C)|(D)
cellFormat(A, B, C, D) ==
    <<"(">> \o A \o <<")">> \o <<"(">> \o B \o <<")">> \o <<"*">>
        \o <<"(">> \o C \o <<")">> \o <<"|">> \o <<"(">> \o D \o <<")">>

\* stepCell on one matrix updated in place: a cell already assigned in
\* this step is read with its new value
stepCellInPlace(previous, current, written, step, i, j) ==
    LET Read(r, c) == IF <<r, c>> \in written THEN current[r][c] ELSE previous[r][c]
    IN <<"(">> \o Read(i, step) \o <<")">> \o <<"(">> \o Read(step, step) \o <<")">>
           \o <<"*">> \o <<"(">> \o Read(step, j) \o <<")">> \o <<"|">>
           \o <<"(">> \o Read(i, j) \o <<")">>

\* The value assigned to regular_expression[i][j] in step `step`, given the
\* matrix of the previous step (previous), the matrix being filled
\* (current) and the set of its cells already assigned (written).  The
\* code reads the previous matrix only.
stepCell(previous, current, written, step, i, j) ==
    cellFormat(previous[i][step], previous[step][step], previous[step][j], previous[i][j])

\* the cells in the order of the two nested loops
RowMajor(n) == [k \in 1..(n * n) |-> <<((k - 1) \div n) + 1, ((k - 1) % n) + 1>>]

\* one pass of the nested loops over `order`, starting from the fresh
\* matrix of zeros
RECURSIVE fillMatrix(_, _, _, _, _, _)
fillMatrix(previous, current, written, step, order, k) ==
    IF k > Len(order) THEN current
    ELSE LET i == order[k][1]
             j == order[k][2]
         IN fillMatrix(previous,
                       [current EXCEPT ![i][j] = stepCell(previous, current, written, step, i, j)],
                       written \cup {order[k]}, step, order, k + 1)

ZeroMatrix(n) == [i \in 1..n |-> [j \in 1..n |-> <<"0">>]]

kleeneStep(previous, step) ==
    LET n == Len(previous)
    IN fillMatrix(previous, ZeroMatrix(n), {}, step, RowMajor(n), 1)

\* the row of the final matrix read by the final assembly: row 0 in the
\* code, the first row here
answerRow(self) == 1

\* answer and path after the loop over the states, from index i
RECURSIVE assemble(_, _, _)
assemble(self, matrix, i) ==
    IF i > Len(self.states) THEN <<>>
    ELSE (IF self.states[i] \in Range(self.accepting_states)
          THEN <<"(">> \o matrix[answerRow(self)][i] \o <<")">> \o <<"|">>
          ELSE <<>>)
             \o assemble(self, matrix, i + 1)

finalAnswer(self, matrix) ==
    LET answer == assemble(self, matrix, 1)
    IN IF answer = <<>> THEN empty_set ELSE SubSeq(answer, 1, Len(answer) - 1)

\* ------------------------------------- the language of an expression
\* Reference semantics of the produced text, read as a regular
\* expression: "*" binds tighter than concatenation, concatenation tighter
\* than "|"; "eps" is the empty word and "{}" the empty language.
\* Languages are cut at words of MaxWordLen atoms.

Operators == {"(", ")", "*", "|"}

ConcatLang(A, B) ==
    IF A = {<<>>} THEN B
    ELSE IF B = {<<>>} THEN A
    ELSE {w[1] \o w[2] : w \in {x \in A \X B : Len(x[1]) + Len(x[2]) <= MaxWordLen}}

RECURSIVE StarLang(_, _)
StarLang(A, acc) ==
    LET next == acc \cup ConcatLang(acc, A)
    IN IF next = acc THEN acc ELSE StarLang(A, next)

RECURSIVE ParseAlt(_, _)
RECURSIVE ParseCat(_, _, _)
RECURSIVE ParseRep(_, _)
RECURSIVE ParseStars(_, _)
RECURSIVE ParseAtom(_, _)

\* alt ::= cat ("|" cat)*
ParseAlt(t, pos) ==
    LET first == ParseCat(t, pos, {<<>>})
    IN IF first.pos <= Len(t) /\ t[first.pos] = "|"
       THEN LET rest == ParseAlt(t, first.pos + 1)
            IN [lang |-> first.lang \cup rest.lang, pos |-> rest.pos,
                ok |-> first.ok /\ rest.ok]
       ELSE first

\* cat ::= rep*
ParseCat(t, pos, acc) ==
    IF pos > Len(t) \/ t[pos] \in {"|", ")"}
    THEN [lang |-> acc, pos |-> pos, ok |-> TRUE]
    ELSE LET r == ParseRep(t, pos)
             rest == ParseCat(t, r.pos, ConcatLang(acc, r.lang))
         IN [rest EXCEPT !.ok = r.ok /\ rest.ok]

\* rep ::= atom "*"*
ParseRep(t, pos) == ParseStars(t, ParseAtom(t, pos))

ParseStars(t, r) ==
    IF r.pos <= Len(t) /\ t[r.pos] = "*"
    THEN ParseStars(t, [r EXCEPT !.lang = StarLang(r.lang, {<<>>}), !.pos = r.pos + 1])
    ELSE r

\* atom ::= "(" alt ")" | "eps" | "{}" | symbol
ParseAtom(t, pos) ==
    IF t[pos] = "("
    THEN LET inner == ParseAlt(t, pos + 1)
         IN [lang |-> inner.lang, pos |-> inner.pos + 1,
             ok |-> inner.ok /\ inner.pos <= Len(t) /\ t[inner.pos] = ")"]
    ELSE IF t[pos] = "eps" THEN [lang |-> {<<>>}, pos |-> pos + 1, ok |-> TRUE]
    ELSE IF t[pos] = "{}" THEN [lang |-> {}, pos |-> pos + 1, ok |-> TRUE]
    ELSE [lang |-> {<<t[pos]>>}, pos |-> pos + 1, ok |-> t[pos] \notin Operators]

\* t is a well-formed expression whose language is the set `words`
Denotes(t, words) ==
    LET r == ParseAlt(t, 1)
    IN r.ok /\ r.pos = Len(t) + 1 /\ r.lang = words

\* ------------------------------------------- the words of the automaton
\* Reference semantics of the automaton: the labels of its paths.

Triples(self) ==
    {Split(self.transitions[k], ">") : k \in 1..Len(self.transitions)}

\* The words of the paths from `from` to `to` whose states strictly
\* between the two ends are all in `through`.  frontier holds <<state,
\* word>> for the paths of n transitions from `from`; found holds the
\* words of the shorter paths that end in `to`.
RECURSIVE WalkPaths(_, _, _, _, _, _)
WalkPaths(triples, frontier, to, through, n, found) ==
    LET here == found \cup {p[2] : p \in {x \in frontier : x[1] = to}}
        next == {<<x[2][3], x[1][2] \o x[2][2]>> :
                    x \in {y \in frontier \X triples :
                              /\ y[2][1] = y[1][1]
                              /\ (n = 0 \/ y[1][1] \in through)
                              /\ Len(y[1][2]) + Len(y[2][2]) <= MaxWordLen}}
    IN IF n = MaxWordLen \/ next = {} THEN here
       ELSE WalkPaths(triples, next, to, through, n + 1, here)

PathWords(self, from, to, through) ==
    WalkPaths(Triples(self), {<<from, <<>>>>}, to, through, 0, {})

\* the words the automaton accepts
Accepted(self) ==
    UNION {PathWords(self, self.initial_state, f, Range(self.states))
              : f \in Range(self.accepting_states)}

\* ------------------------------------------------------- input files

Line(keyword, payload) == <<keyword, "=", "[">> \o payload \o <<"]">>

InputFile(type, sts, alph, init, acc, trans) ==
    <<Line("type", type), Line("states", sts), Line("alphabet", alph),
      Line("initial", init), Line("accepting", acc), Line("transitions", trans)>>

Reverse(seq) == [i \in 1..Len(seq) |-> seq[Len(seq) + 1 - i]]
AsFields(seq) == [i \in 1..Len(seq) |-> <<seq[i]>>]
SeqsUpTo(S, n) == UNION {[1..k -> S] : k \in 0..n}

StateNames == <<"p", "q", "r", "s">>
Symbols == {"a", "b"}

TypeTexts == {<<"deterministic">>, <<"non-deterministic">>}
AlphabetTexts == {<<"a">>, <<"a", ",", "b">>}

\* the first k names, listed last first; the longest list names its
\* first state twice
StatesTexts(names) ==
    {Join(AsFields(Reverse(SubSeq(names, 1, k))), ",") : k \in 1..(Len(names) - 1)}
        \cup {Join(AsFields(Reverse(names) \o <<names[Len(names)]>>), ",")}

Tokens(names, symbols) ==
    {<<t[1], ">", t[2], ">", t[3]>> : t \in Range(names) \X symbols \X Range(names)}

\* a token of two fields and a token with an empty source
BadTokens == {<<"p", ">", "a">>, <<">", "a", ">", "p">>}

TransitionsTexts(tokens, n) == {Join(ts, ",") : ts \in SeqsUpTo(tokens, n)}

\* files of six well-placed lines over the first two names
PipelineNames == SubSeq(StateNames, 1, 2)
PipelineFiles ==
    {InputFile(f[1], f[2], f[3], f[4], f[5], f[6]) :
        f \in TypeTexts \X StatesTexts(PipelineNames) \X AlphabetTexts
                \X ({<<>>} \cup Range(AsFields(PipelineNames)))
                \X ({<<>>, Join(AsFields(PipelineNames), ",")}
                        \cup Range(AsFields(PipelineNames)))
                \X TransitionsTexts(Tokens(PipelineNames, Symbols) \cup BadTokens, MaxTrans)}

\* files whose lines are misplaced, missing or without brackets
SampleFile ==
    InputFile(<<"deterministic">>, <<"p">>, <<"a">>, <<"p">>, <<"p">>,
              <<"p", ">", "a", ">", "p">>)
BrokenFiles ==
    {SubSeq(SampleFile, 1, 5),
     SampleFile \o <<Line("transitions", <<"p", ">", "a", ">", "p">>)>>,
     [SampleFile EXCEPT ![2] = SampleFile[3], ![3] = SampleFile[2]],
     [SampleFile EXCEPT ![2] = <<"states", "=", "p">>],
     [SampleFile EXCEPT ![2] = <<"states", "=", "[", "p">>],
     [SampleFile EXCEPT ![2] = <<"states", "=", "[", "]", "[", "p", "]">>],
     [SampleFile EXCEPT ![1] = <<"[", "deterministic", "]">>]}

\* ------------------------------------------------------- state

VARIABLES file, pc, automaton_type, states, alphabet, initial_state,
          accepting_states, transitions, initial_regular_expression,
          regular_expression, written, step, answer, stdout, exit_status

fields == <<automaton_type, states, alphabet, initial_state, accepting_states,
            transitions>>
matrices == <<initial_regular_expression, regular_expression, written, step>>
output == <<answer, stdout, exit_status>>
vars == <<file, pc, fields, matrices, output>>

Self ==
    [automaton_type |-> automaton_type, states |-> states, alphabet |-> alphabet,
     initial_state |-> initial_state, accepting_states |-> accepting_states,
     transitions |-> transitions]

\* RegularExpressionConverter.__init__, before convert() is called
Constructed ==
    /\ pc = "extract"
    /\ automaton_type = <<>>
    /\ states = <<>>
    /\ alphabet = <<>>
    /\ initial_state = <<>>
    /\ accepting_states = <<>>
    /\ transitions = <<>>
    /\ initial_regular_expression = <<>>
    /\ regular_expression = <<>>
    /\ written = {}
    /\ step = 0
    /\ answer = <<>>
    /\ stdout = <<>>
    /\ exit_status = "running"

Init ==
    /\ file \in PipelineFiles \cup BrokenFiles
    /\ Constructed

\* except ConverterException: print(exception); exit()
Diagnose(exception) ==
    /\ stdout' = Append(stdout, exception)
    /\ exit_status' = 0
    /\ pc' = "exited"
    /\ UNCHANGED answer

\* ------------------------------------------------------- actions

\* convert(): __extract returns
ExtractReturns ==
    /\ pc = "extract"
    /\ ~extract(file).malformed
    /\ LET got == extract(file)
       IN /\ automaton_type' = got.automaton_type
          /\ states' = got.states
          /\ alphabet' = got.alphabet
          /\ initial_state' = got.initial_state
          /\ accepting_states' = got.accepting_states
          /\ transitions' = got.transitions
    /\ pc' = "validate"
    /\ UNCHANGED <<file, matrices, output>>

\* convert(): __extract raises InputIsMalformedException.  When the loop
\* over the lines ends, the assignments before the first missing value
\* have been made.
ExtractRaises ==
    /\ pc = "extract"
    /\ extract(file).malformed
    /\ LET loopRaises ==
               \/ Len(file) > Len(commands)
               \/ \E i \in 1..Len(file) : commands[i] \notin Range(file[i])
           Missing(k) == k > Len(file) \/ findall(file[k]) = <<>>
           Assigned(k) == ~loopRaises /\ \A m \in 1..k : ~Missing(m)
           Value(k) == findall(file[k])[1]
       IN /\ automaton_type' = IF Assigned(1) THEN Value(1) ELSE automaton_type
          /\ states' = IF Assigned(2) THEN SortSet(Range(Split(Value(2), ","))) ELSE states
          /\ alphabet' = IF Assigned(3) THEN Split(Value(3), ",") ELSE alphabet
          /\ initial_state' = IF Assigned(4) THEN Value(4) ELSE initial_state
          /\ accepting_states' = IF Assigned(5) THEN Split(Value(5), ",") ELSE accepting_states
          /\ transitions' = transitions
    /\ Diagnose(InputIsMalformedException)
    /\ UNCHANGED <<file, matrices>>

\* convert(): __validate returns
ValidateReturns ==
    /\ pc = "validate"
    /\ validate(Self) = NoException
    /\ pc' = "build"
    /\ UNCHANGED <<file, fields, matrices, output>>

\* convert(): __validate raises a ConverterException
ValidateRaises ==
    /\ pc = "validate"
    /\ validate(Self) \notin {NoException, ValueError}
    /\ Diagnose(validate(Self))
    /\ UNCHANGED <<file, fields, matrices>>

\* convert(): __validate raises an exception the except clause does not
\* catch; the interpreter prints a traceback to stderr and exits with 1
ValidateFails ==
    /\ pc = "validate"
    /\ validate(Self) = ValueError
    /\ exit_status' = 1
    /\ pc' = "crashed"
    /\ UNCHANGED <<file, fields, matrices, answer, stdout>>

\* convert(): initial_regular_expression = self.__buildInitialRegExp()
BuildInitialRegExp ==
    /\ pc = "build"
    /\ initial_regular_expression' = buildInitialRegExp(Self)
    /\ step' = 1
    /\ pc' = "steps"
    /\ UNCHANGED <<file, fields, regular_expression, written, output>>

\* convert(): one turn of the loop over step, the two inner loops included
KleeneStep ==
    /\ pc = "steps"
    /\ step <= Len(states)
    /\ regular_expression' = kleeneStep(initial_regular_expression, step)
    /\ written' = Range(RowMajor(Len(states)))
    /\ initial_regular_expression' = regular_expression'
    /\ step' = step + 1
    /\ UNCHANGED <<file, pc, fields, output>>

\* convert(): the final assembly and the return
Return ==
    /\ pc = "steps"
    /\ step > Len(states)
    /\ answer' = finalAnswer(Self, initial_regular_expression)
    /\ pc' = "print"
    /\ UNCHANGED <<file, fields, matrices, stdout, exit_status>>

\* main(): print(answer), then the interpreter exits
PrintAnswer ==
    /\ pc = "print"
    /\ stdout' = Append(stdout, answer)
    /\ exit_status' = 0
    /\ pc' = "done"
    /\ UNCHANGED <<file, fields, matrices, answer>>

Next ==
    \/ ExtractReturns
    \/ ExtractRaises
    \/ ValidateReturns
    \/ ValidateRaises
    \/ ValidateFails
    \/ BuildInitialRegExp
    \/ KleeneStep
    \/ Return
    \/ PrintAnswer

Spec == Init /\ [][Next]_vars

\* ------------------------------------------- what the properties speak of
\* Declarative readings of the input and of the checks of the validator,
\* written from their statement and not from the code of __validate.

Finished == pc \in {"exited", "crashed", "done"}

\* __extract assigns transitions last, and never the empty list
Extracted == transitions # <<>>

\* line k is keyword=[payload]
PayloadOf(k) == SubSeq(file[k], 4, Len(file[k]) - 1)
WellPlaced(k) ==
    /\ k <= Len(file)
    /\ Len(file[k]) >= 4
    /\ file[k] = Line(commands[k], PayloadOf(k))
    /\ "[" \notin Range(PayloadOf(k))
    /\ "]" \notin Range(PayloadOf(k))

\* six well-placed lines, every payload but that of line `empty` non-empty
SixLinesEmptyAt(empty) ==
    /\ Len(file) = Len(commands)
    /\ \A k \in 1..Len(commands) : WellPlaced(k) /\ (PayloadOf(k) = <<>> <=> k = empty)

TokensOf(k) == Split(PayloadOf(k), ",")
FieldsOf(token) == Split(token, ">")
NoDuplicates(seq) == \A i, j \in 1..Len(seq) : seq[i] = seq[j] => i = j

ThreeFields(token) == Len(FieldsOf(token)) = 3
Source(token) == FieldsOf(token)[1]
Symbol(token) == FieldsOf(token)[2]
Dest(token) == FieldsOf(token)[3]

StateSet == Range(states)

\* check 1 to check 5
Fails1 == ~NoDuplicates(transitions)
Fails2 == initial_state = <<>> \/ initial_state \notin StateSet
Fails3 == accepting_states = <<>>
Fails4 == \E k \in 1..Len(accepting_states) : accepting_states[k] \notin StateSet
TokenFails(token) ==
    \/ ~ThreeFields(token)
    \/ Source(token) = <<>>
    \/ Source(token) \notin StateSet
    \/ Dest(token) \notin StateSet
    \/ Symbol(token) \notin Range(alphabet)
Fails5 == \E k \in 1..Len(transitions) : TokenFails(transitions[k])
PassesChecks1to5 == Extracted /\ ~Fails1 /\ ~Fails2 /\ ~Fails3 /\ ~Fails4 /\ ~Fails5

\* the states reachable from the initial state along directed edges
Edges == {<<Source(transitions[k]), Dest(transitions[k])>> : k \in 1..Len(transitions)}
RECURSIVE ReachFrom(_)
ReachFrom(S) ==
    LET more == S \cup {e[2] : e \in {x \in Edges : x[1] \in S}}
    IN IF more = S THEN S ELSE ReachFrom(more)
Reachable == ReachFrom({initial_state})

\* check 6 and check 7
Fails6 == \E s \in StateSet : s \notin Reachable
Ambiguous ==
    \E i, j \in 1..Len(transitions) :
        /\ i # j
        /\ Source(transitions[i]) = Source(transitions[j])
        /\ Symbol(transitions[i]) = Symbol(transitions[j])
Fails7 == automaton_type = <<"deterministic">> /\ Ambiguous
PassesChecks1to6 == PassesChecks1to5 /\ ~Fails6

Reported(exception) == pc = "exited" /\ stdout = <<exception>>
ConstructionNotReached == initial_regular_expression = <<>> /\ answer = <<>>

\* the error check number `check` is to report
FirstFailingAccepting ==
    accepting_states[CHOOSE k \in 1..Len(accepting_states) :
                         /\ accepting_states[k] \notin StateSet
                         /\ \A m \in 1..(k - 1) : accepting_states[m] \in StateSet]
FirstFailingToken ==
    transitions[CHOOSE k \in 1..Len(transitions) :
                    /\ TokenFails(transitions[k])
                    /\ \A m \in 1..(k - 1) : ~TokenFails(transitions[m])]
ErrorOfToken(token) ==
    IF ~ThreeFields(token) \/ Source(token) = <<>> THEN InputIsMalformedException
    ELSE IF Source(token) \notin StateSet THEN InvalidStateException(Source(token))
    ELSE IF Dest(token) \notin StateSet THEN InvalidStateException(Dest(token))
    ELSE InvalidTransitionException(Symbol(token))
ErrorOfCheck(check) ==
    CASE check = 1 -> InputIsMalformedException
      [] check = 2 -> IF initial_state = <<>> THEN InitStateIsNotDefinedException
                      ELSE InvalidStateException(initial_state)
      [] check = 3 -> NoAcceptingStatesException
      [] check = 4 -> InvalidStateException(FirstFailingAccepting)
      [] check = 5 -> ErrorOfToken(FirstFailingToken)
      [] check = 6 -> DisjointStatesException
      [] check = 7 -> InvalidFSATypeException

LowestFailing ==
    IF Fails1 THEN 1 ELSE IF Fails2 THEN 2 ELSE IF Fails3 THEN 3
    ELSE IF Fails4 THEN 4 ELSE IF Fails5 THEN 5 ELSE IF Fails6 THEN 6
    ELSE IF Fails7 THEN 7 ELSE 0

\* ------------------------------------------------------- properties

\* C1: the answer of a finished conversion is a regular expression whose
\* language is the set of words the automaton accepts from its declared
\* initial state, whatever the place of that state in the sorted order.
C1_AnswerDenotesLanguage ==
    pc = "done" => Denotes(answer, Accepted(Self))

\* Support for C1: the defect is the row alone.  When the initial state is
\* the first state in sorted order, the answer denotes the language.
AnswerDenotesLanguageFromFirstState ==
    pc = "done" /\ initial_state = states[1]
        => Denotes(answer, Accepted(Self))

\* C2: an empty accepting payload, with no duplicate transition and an
\* initial state that is declared, is reported as E3 and the construction
\* is not reached.
C2_EmptyAcceptingReportsE3 ==
    /\ Finished
    /\ SixLinesEmptyAt(5)
    /\ NoDuplicates(TokensOf(6))
    /\ PayloadOf(4) \in Range(TokensOf(2))
    => Reported(NoAcceptingStatesException) /\ ConstructionNotReached

\* C3: a transition token that does not have three fields is reported as
\* E1, one diagnostic, and never ends the run with an unhandled exception.
C3_WrongFieldCountReportsE1 ==
    /\ Finished
    /\ SixLinesEmptyAt(0)
    /\ \E k \in 1..Len(TokensOf(6)) : ~ThreeFields(TokensOf(6)[k])
    => pc # "crashed" /\ Reported(InputIsMalformedException)

\* C4: an automaton that passes checks 1 to 5 is reported as E6 exactly
\* when a declared state is not reachable from the initial state.
C4_DisjointIffUnreachable ==
    Finished /\ PassesChecks1to5
        => (Reported(DisjointStatesException)
                <=> \E s \in StateSet : s \notin Reachable)

\* C4, witness: E6 for a state that occurs in a transition and still is
\* not reachable from the initial state
C4_Witness ==
    /\ Finished
    /\ PassesChecks1to5
    /\ Reported(DisjointStatesException)
    /\ \E s \in StateSet \ Reachable : \E e \in Edges : s \in {e[1], e[2]}

\* C5: an automaton that passes checks 1 to 6 and has a state with two
\* transitions on one symbol is reported as E7 when declared
\* deterministic; declared non-deterministic it passes validation, and so
\* does the same automaton with the declaration changed.
C5_NondeterminismOnlyWhenDeclared ==
    Finished /\ PassesChecks1to6 /\ Ambiguous
        => /\ automaton_type = <<"deterministic">>
                => Reported(InvalidFSATypeException)
           /\ automaton_type = <<"non-deterministic">> => pc = "done"
           /\ validate([Self EXCEPT !.automaton_type = <<"non-deterministic">>])
                  = NoException

\* C5, witness: an ambiguous automaton declared deterministic, reported
C5_Witness ==
    /\ Finished
    /\ PassesChecks1to6
    /\ Ambiguous
    /\ automaton_type = <<"deterministic">>
    /\ Reported(InvalidFSATypeException)

\* C6: the error reported is that of the lowest-numbered failing check,
\* and after an error the construction is not executed.
C6_LowestFailingCheckReported ==
    Finished /\ Extracted /\ LowestFailing # 0
        => Reported(ErrorOfCheck(LowestFailing)) /\ ConstructionNotReached

\* Support for C6: the order holds for every file whose transition tokens
\* all have three fields.
LowestFailingCheckReportedForThreeFields ==
    /\ Finished
    /\ Extracted
    /\ \A k \in 1..Len(transitions) : ThreeFields(transitions[k])
    /\ LowestFailing # 0
    => Reported(ErrorOfCheck(LowestFailing)) /\ ConstructionNotReached

\* C7: an empty initial payload, with no duplicate transition, is
\* reported as E2.
C7_EmptyInitialReportsE2 ==
    /\ Finished
    /\ SixLinesEmptyAt(4)
    /\ NoDuplicates(TokensOf(6))
    => Reported(InitStateIsNotDefinedException)

\* C8: a run that ends without an answer has printed one diagnostic and
\* no expression and ends with a non-success status; a run that ends with
\* an answer prints it and ends with status 0.
C8_FailureExitsNonSuccess ==
    Finished
        => /\ pc = "done" => exit_status = 0 /\ stdout = <<answer>>
           /\ pc # "done"
                  => /\ exit_status # 0
                     /\ answer = <<>>
                     /\ Len(stdout) = 1
                     /\ stdout[1].code \in {"E1", "E2", "E3", "E4", "E5", "E6", "E7"}

\* ------------------------------------------- well-formed files alone
\* Two families of files whose transitions are distinct tokens of three
\* fields, listed in increasing order: automata over the first two names
\* with both symbols between any two states, and automata over the first
\* MaxStates names with one symbol for each ordered pair of states ("b"
\* on the transitions to a state of smaller name, "a" on the others).

WideNames == SubSeq(StateNames, 1, MaxStates)
Increasing(ts) == \A i \in 1..(Len(ts) - 1) : StrLess(ts[i], ts[i + 1])
IncreasingUpTo(tokens, n) ==
    {ts \in SeqsUpTo(tokens, n) : Len(ts) > 0 /\ Increasing(ts)}

PairTokens(names) ==
    {<<t[1], ">", (IF Ord(t[2]) < Ord(t[1]) THEN "b" ELSE "a"), ">", t[2]>> :
        t \in Range(names) \X Range(names)}

AutomatonFile(sts, init, ts) ==
    InputFile(<<"non-deterministic">>, sts, <<"a", ",", "b">>, init, init, Join(ts, ","))

DenseFiles ==
    {AutomatonFile(f[1], f[2], f[3]) :
        f \in StatesTexts(PipelineNames) \X Range(AsFields(PipelineNames))
                \X IncreasingUpTo(Tokens(PipelineNames, Symbols), MaxTrans + 1)}

WideFiles ==
    {AutomatonFile(f[1], f[2], f[3]) :
        f \in StatesTexts(WideNames)
                \X {<<WideNames[1]>>, <<WideNames[Len(WideNames)]>>}
                \X IncreasingUpTo(PairTokens(WideNames), MaxTrans + 1)}

AutomatonFiles == DenseFiles \cup WideFiles

InitAutomata ==
    /\ file \in AutomatonFiles
    /\ Constructed

NextAutomata ==
    \/ ExtractReturns
    \/ ValidateReturns
    \/ ValidateRaises
    \/ BuildInitialRegExp
    \/ KleeneStep
    \/ Return
    \/ PrintAnswer

SpecAutomata == InitAutomata /\ [][NextAutomata]_vars

\* the states of sorted index at most k
UpTo(k) == {states[m] : m \in 1..k}

\* C9: the matrix held after k steps of the construction (none for the
\* base matrix, all of them for the final matrix) has in cell (i,j) an
\* expression whose language is the set of labels of the paths from state
\* i to state j whose intermediate states have sorted index at most k;
\* for the base matrix these are the direct transitions, with the empty
\* word when i = j, and for the final matrix all the paths.
C9_MatrixDenotesPaths ==
    pc = "steps"
        => \A i, j \in 1..Len(states) :
               Denotes(initial_regular_expression[i][j],
                       PathWords(Self, states[i], states[j], UpTo(step - 1)))

\* C9, witness: the final matrix of an automaton of at least two states
\* with a cycle through two of them
C9_Witness ==
    /\ pc = "steps"
    /\ step = Len(states) + 1
    /\ Len(states) >= 2
    /\ \E i, j \in 1..Len(states) :
           /\ i # j
           /\ <<states[i], states[j]>> \in Edges
           /\ <<states[j], states[i]>> \in Edges
           /\ Len(initial_regular_expression[i][i]) > 1

\* --------------------------------- the construction, cell by cell
\* The turn of the loop over step, taken apart: the fresh matrix, the
\* assignment of one cell, the rebinding of initial_regular_expression.
\* The two inner loops assign the cells in row-major order; here the next
\* cell is any cell not assigned yet, so that every order is a behaviour.

Cells == Range(RowMajor(Len(states)))

\* regular_expression = [[0 for row ...] for column ...]
NewMatrix ==
    /\ pc = "steps"
    /\ step <= Len(states)
    /\ regular_expression' = ZeroMatrix(Len(states))
    /\ written' = {}
    /\ pc' = "cells"
    /\ UNCHANGED <<file, fields, initial_regular_expression, step, output>>

\* regular_expression[i][j] = f"..."
AssignCell ==
    /\ pc = "cells"
    /\ \E cell \in Cells \ written :
           /\ regular_expression' =
                  [regular_expression EXCEPT ![cell[1]][cell[2]] =
                      stepCell(initial_regular_expression, regular_expression,
                               written, step, cell[1], cell[2])]
           /\ written' = written \cup {cell}
    /\ UNCHANGED <<file, pc, fields, initial_regular_expression, step, output>>

\* initial_regular_expression = regular_expression
Rebind ==
    /\ pc = "cells"
    /\ written = Cells
    /\ initial_regular_expression' = regular_expression
    /\ step' = step + 1
    /\ pc' = "steps"
    /\ UNCHANGED <<file, fields, regular_expression, written, output>>

OrderFiles == DenseFiles

InitOrder ==
    /\ file \in OrderFiles
    /\ Constructed

NextOrder ==
    \/ ExtractReturns
    \/ ValidateReturns
    \/ ValidateRaises
    \/ BuildInitialRegExp
    \/ NewMatrix
    \/ AssignCell
    \/ Rebind
    \/ Return
    \/ PrintAnswer

SpecOrder == InitOrder /\ [][NextOrder]_vars

\* C10: whatever the order in which the cells of a step were assigned,
\* the completed matrix of the step is the matrix the row-major order
\* gives from the matrix of the previous step, and every cell assigned so
\* far is the combination of four cells of the previous matrix.
C10_StepIsFunctionOfPreviousMatrix ==
    pc = "cells"
        => /\ \A cell \in written :
                  regular_expression[cell[1]][cell[2]]
                      = cellFormat(initial_regular_expression[cell[1]][step],
                                   initial_regular_expression[step][step],
                                   initial_regular_expression[step][cell[2]],
                                   initial_regular_expression[cell[1]][cell[2]])
           /\ written = Cells
                  => regular_expression = kleeneStep(initial_regular_expression, step)

\* C10, witness: a completed step of two states in which the cell
\* (step, step) was assigned, its previous value differs from its new one
C10_Witness ==
    /\ pc = "cells"
    /\ written = Cells
    /\ Len(states) >= 2
    /\ step = 2
    /\ regular_expression[step][step] # initial_regular_expression[step][step]

====
